---- MODULE Spec2Model ----
(***************************************************************************)
(* Model of the two plotting helpers of opendata-nwp-demos:                *)
(*   load_ncl_rgb_colors  (developer_notebooks/plot_utils/load_colormaps)  *)
(*   get_valid_data_frame (plot_utils/plot_valid_data_frame)               *)
(* A behaviour is one call of one of the two functions, step by step.      *)
(* Text is a sequence of one-character strings; a file is a sequence of    *)
(* lines (without their terminator, which the line iterator adds back).    *)
(***************************************************************************)
EXTENDS Integers, Sequences, FiniteSets, TLC

VARIABLES
    pc,            \* position of the running call
    fs,            \* the filesystem: path -> file content (sequence of lines)
    name,          \* load_ncl_rgb_colors: argument name
    base_path,     \* load_ncl_rgb_colors: argument base_path
    path,          \* load_ncl_rgb_colors: local path
    f,             \* load_ncl_rgb_colors: the file object of the with block
    colors,        \* load_ncl_rgb_colors: local colors
    result,        \* load_ncl_rgb_colors: the returned list
    exc,           \* the exception a call ended with ("none" if none)
    opens,         \* history: paths handed to open(), in order
    data_array,    \* get_valid_data_frame: argument data_array
    level_idx,     \* get_valid_data_frame: argument level_idx
    valid_lat,     \* get_valid_data_frame: local valid_lat
    valid_lon,     \* get_valid_data_frame: local valid_lon
    points,        \* history: the list handed to MultiPoint()
    frame_polygon  \* get_valid_data_frame: the returned value

loadVars == <<fs, name, base_path, path, f, colors, result, exc, opens>>

hullVars ==
    <<data_array, level_idx, valid_lat, valid_lon, points, frame_polygon>>

----------------------------------------------------------------------------
(* Bounds of the model *)

MaxLines == 3      \* lines per colormap file
MaxCells == 6      \* grid points (y times x) of a data array
NEps == 2          \* length of the eps dimension of a data array
NRef == 1          \* length of the ref_time dimension of a data array
MaxStep == 1       \* largest coordinate increment per grid index

----------------------------------------------------------------------------
(* Text helpers: what str.strip(), str.split(), str.startswith(), `in` and *)
(* int() do on the characters the model uses.                              *)

Whitespace == {" ", "\t", "\n"}

DigitChars == {"0", "1", "2", "3", "4", "5", "6", "7", "8", "9"}

DigitVal(c) ==
    CASE c = "0" -> 0 [] c = "1" -> 1 [] c = "2" -> 2 [] c = "3" -> 3
      [] c = "4" -> 4 [] c = "5" -> 5 [] c = "6" -> 6 [] c = "7" -> 7
      [] c = "8" -> 8 [] c = "9" -> 9

RECURSIVE LStrip(_)
LStrip(s) ==
    IF s # <<>> /\ Head(s) \in Whitespace THEN LStrip(Tail(s)) ELSE s

RECURSIVE RStrip(_)
RStrip(s) ==
    IF s # <<>> /\ s[Len(s)] \in Whitespace
    THEN RStrip(SubSeq(s, 1, Len(s) - 1))
    ELSE s

\* str.strip() with no argument
Strip(s) == RStrip(LStrip(s))

\* s.startswith(p)
StartsWith(s, p) == Len(p) <= Len(s) /\ SubSeq(s, 1, Len(p)) = p

\* p in s
Contains(s, p) ==
    \E i \in 1..(Len(s) - Len(p) + 1) : SubSeq(s, i, i + Len(p) - 1) = p

\* the longest whitespace-free prefix of s
RECURSIVE TakeWord(_)
TakeWord(s) ==
    IF s = <<>> \/ Head(s) \in Whitespace
    THEN <<>>
    ELSE <<Head(s)>> \o TakeWord(Tail(s))

\* str.split() with no argument: the runs of non-whitespace characters
RECURSIVE Split(_)
Split(s) ==
    LET t == LStrip(s) IN
    IF t = <<>>
    THEN <<>>
    ELSE LET w == TakeWord(t) IN
         <<w>> \o Split(SubSeq(t, Len(w) + 1, Len(t)))

\* the digits part of an int() literal: digits, with single underscores
\* allowed between digits
IsDigits(s) ==
    /\ s # <<>>
    /\ \A i \in 1..Len(s) : s[i] \in DigitChars \cup {"_"}
    /\ s[1] # "_" /\ s[Len(s)] # "_"
    /\ \A i \in 1..(Len(s) - 1) : ~(s[i] = "_" /\ s[i + 1] = "_")

Unsigned(tok) ==
    IF tok # <<>> /\ tok[1] \in {"+", "-"} THEN Tail(tok) ELSE tok

\* int(tok) succeeds (tok holds no whitespace: it comes out of split())
IsInt(tok) == IsDigits(Unsigned(tok))

RECURSIVE DigitsVal(_, _)
DigitsVal(s, acc) ==
    IF s = <<>> THEN acc
    ELSE IF Head(s) = "_" THEN DigitsVal(Tail(s), acc)
    ELSE DigitsVal(Tail(s), 10 * acc + DigitVal(Head(s)))

\* int(tok), for a tok with IsInt(tok)
IntOf(tok) ==
    LET v == DigitsVal(Unsigned(tok), 0) IN
    IF tok[1] = "-" THEN 0 - v ELSE v

----------------------------------------------------------------------------
(* Numbers: the quotient n / d of true division is kept as the fraction    *)
(* in lowest terms (d > 0), which is exact where the float is rounded.     *)

Abs(n) == IF n < 0 THEN 0 - n ELSE n

RECURSIVE GCD(_, _)
GCD(a, b) == IF b = 0 THEN a ELSE GCD(b, a % b)

TrueDiv(n, d) ==
    LET g == GCD(Abs(n), d) IN <<n \div g, d \div g>>

ChannelMax == 255

\* faulty variant: the wrong divisor
Div128(v) == TrueDiv(v, 128)

\* v / 255
Div255(v) == TrueDiv(v, ChannelMax)

----------------------------------------------------------------------------
(* load_ncl_rgb_colors *)

DefaultBasePath == "plot_utils/colormaps"

Names == {"a", "b"}

\* os.path.join(base_path, f"{name}.rgb")
PathJoin(base, nm) == <<base, <<nm, ".rgb">>>>

\* faulty variant: no existence test
ExistsAlways(files, p) == TRUE

\* os.path.exists(path)
Exists(files, p) == p \in DOMAIN files

ncolors == <<"n", "c", "o", "l", "o", "r", "s">>

\* faulty variant: the header line is not skipped
SkipLineNoHeader(line) ==
    line = <<>> \/ StartsWith(line, <<"#">>)

\* not line or line.startswith("#") or "ncolors" in line
SkipLine(line) ==
    line = <<>> \/ StartsWith(line, <<"#">>) \/ Contains(line, ncolors)

Skip == [kind |-> "skip", color |-> <<>>]
Raise == [kind |-> "raise", color |-> <<>>]
Color(c) == [kind |-> "color", color |-> c]

\* r, g, b = map(int, parts); (r / 255, g / 255, b / 255)
Triplet(parts) ==
    IF \A i \in 1..Len(parts) : IsInt(parts[i])
    THEN IF Len(parts) = 3
         THEN Color(<<Div255(IntOf(parts[1])), Div255(IntOf(parts[2])),
                      Div255(IntOf(parts[3]))>>)
         ELSE Raise      \* unpacking into r, g, b fails
    ELSE Raise           \* int() fails

\* faulty variants of the loop body: non-integers skipped, no length test,
\* only the first three tokens read
ParseLineLenient(raw) ==
    LET line == Strip(raw) IN
    IF SkipLine(line) THEN Skip
    ELSE LET parts == Split(line) IN
         IF Len(parts) = 3 /\ \A i \in 1..3 : IsInt(parts[i])
         THEN Triplet(parts)
         ELSE Skip

ParseLineStrict(raw) ==
    LET line == Strip(raw) IN
    IF SkipLine(line) THEN Skip ELSE Triplet(Split(line))

ParseLineFirstThree(raw) ==
    LET line == Strip(raw) IN
    IF SkipLine(line) THEN Skip
    ELSE LET parts == Split(line) IN
         IF Len(parts) >= 3 THEN Triplet(SubSeq(parts, 1, 3)) ELSE Skip

\* one iteration of the loop on the line the iterator delivers
ParseLine(raw) ==
    LET line == Strip(raw) IN
    IF SkipLine(line) THEN Skip
    ELSE LET parts == Split(line) IN
         IF Len(parts) = 3 THEN Triplet(parts) ELSE Skip

\* the line the file iterator yields at position i: the line and its "\n"
ReadLine(content, i) == content[i] \o <<"\n">>

NoFile == [open |-> FALSE, closed |-> FALSE, pos |-> 0, content |-> <<>>]

OpenedFile(content) ==
    [open |-> TRUE, closed |-> FALSE, pos |-> 0, content |-> content]

\* faulty variant: the file is left open
WithExitLeak(file) == file

\* leaving the with block, normally or by an exception: f.close()
WithExit(file) == [file EXCEPT !.open = FALSE, !.closed = TRUE]

\* the whole loop as a function of the file content: how the call ends and
\* with which list
RECURSIVE LoadColors(_, _)
LoadColors(content, acc) ==
    IF content = <<>>
    THEN [status |-> "returned", colors |-> acc]
    ELSE LET o == ParseLine(Head(content) \o <<"\n">>) IN
         IF o.kind = "raise"
         THEN [status |-> "raised", colors |-> <<>>]
         ELSE LoadColors(Tail(content),
                         IF o.kind = "color" THEN Append(acc, o.color)
                         ELSE acc)

----------------------------------------------------------------------------
(* get_valid_data_frame.  Arrays are functions on 0-based indices; a point *)
(* is <<x, y>> with integer coordinates; a geometry is its type and the    *)
(* set of its vertices (the order of a ring's vertices is left out).       *)

NaN == "nan"
Val == "val"

\* np.isnan
IsNaN(v) == v = NaN

Rows(a) == DOMAIN a
Cols(a) == IF DOMAIN a = {} THEN {} ELSE DOMAIN a[0]

\* faulty variant: level_idx ignored
SliceFirst(values, idx) == values[0][0]

\* data_array.values[level_idx[0], level_idx[1]]
Slice2D(values, idx) == values[idx[1]][idx[2]]

\* ~np.isnan(data_2d)
ValidMask(data_2d) ==
    [y \in Rows(data_2d) |-> [x \in Cols(data_2d) |-> ~IsNaN(data_2d[y][x])]]

\* the positions of a 2D array in row-major order
Positions(a) ==
    LET nx == Cardinality(Cols(a)) IN
    [k \in 1..(Cardinality(Rows(a)) * nx) |->
        <<(k - 1) \div nx, (k - 1) % nx>>]

\* a[mask]: the elements of a where mask is true, in row-major order
BoolIndex(a, mask) ==
    LET Sel(pos) == mask[pos[1]][pos[2]]
        kept == SelectSeq(Positions(mask), Sel)
    IN  [k \in 1..Len(kept) |-> a[kept[k][1]][kept[k][2]]]

\* list(zip(valid_lon, valid_lat))
Zip(lons, lats) == [k \in 1..Len(lons) |-> <<lons[k], lats[k]>>]

\* faulty variant: distinct latitudes counted instead of positions
TooFewDistinct(lats) == Cardinality({lats[k] : k \in 1..Len(lats)}) < 3

\* len(valid_lat) < 3
TooFew(lats) == Len(lats) < 3

Cross(o, a, b) ==
    (a[1] - o[1]) * (b[2] - o[2]) - (a[2] - o[2]) * (b[1] - o[1])

Dot(o, a, b) ==
    (a[1] - o[1]) * (b[1] - o[1]) + (a[2] - o[2]) * (b[2] - o[2])

Collinear(P) == \A a, b, c \in P : Cross(a, b, c) = 0

\* p is a corner of the convex hull of P (P not collinear): some q makes
\* pq a supporting line on which no point of P lies behind p
IsHullVertex(p, P) ==
    \E q \in P \ {p} :
        \A r \in P :
            /\ Cross(p, q, r) >= 0
            /\ Cross(p, q, r) = 0 => Dot(p, q, r) >= 0

LexLess(a, b) == a[1] < b[1] \/ (a[1] = b[1] /\ a[2] < b[2])

\* the two ends of a collinear set of at least two points
Ends(P) ==
    { p \in P : (\A q \in P \ {p} : LexLess(p, q))
                   \/ (\A q \in P \ {p} : LexLess(q, p)) }

Geometry(t, vs) == [type |-> t, coords |-> vs]

None == Geometry("None", {})

\* faulty variant: a hull that keeps the points lying on an edge between
\* two corners
ConvexHullNoCleanup(pts) ==
    LET P == {pts[k] : k \in 1..Len(pts)} IN
    IF P = {} THEN Geometry("GeometryCollection", {})
    ELSE IF Cardinality(P) = 1 THEN Geometry("Point", P)
    ELSE IF Collinear(P) THEN Geometry("LineString", P)
    ELSE Geometry("Polygon",
                  {p \in P : \E q \in P \ {p} :
                                 \A r \in P : Cross(p, q, r) >= 0})

\* MultiPoint(pts).convex_hull: a Point for one distinct point, a
\* LineString for collinear points, else the Polygon of the hull's corners
ConvexHull(pts) ==
    LET P == {pts[k] : k \in 1..Len(pts)} IN
    IF P = {} THEN Geometry("GeometryCollection", {})
    ELSE IF Cardinality(P) = 1 THEN Geometry("Point", P)
    ELSE IF Collinear(P) THEN Geometry("LineString", Ends(P))
    ELSE Geometry("Polygon", {p \in P : IsHullVertex(p, P)})

----------------------------------------------------------------------------
(* Inputs of load_ncl_rgb_colors: the lines a colormap file is made of.    *)

LinePool ==
    { <<>>,                                                  \* ""
      <<" ", "\t">>,                                         \* " \t"
      <<"#", " ", "c">>,                                     \* "# c"
      <<"#", "1", " ", "2", " ", "3">>,                      \* "#1 2 3"
      <<"n", "c", "o", "l", "o", "r", "s", " ", "=", " ", "3">>,
                                                             \* "ncolors = 3"
      <<"2", "5", "5", " ", "0", " ", "1", "2", "8">>,       \* "255 0 128"
      <<" ", "0", " ", " ", "1", "\t", "2", " ">>,           \* " 0  1\t2 "
      <<"1", " ", "2">>,                                     \* "1 2"
      <<"1", " ", "2", " ", "3", " ", "4">>,                 \* "1 2 3 4"
      <<"1", " ", "x", " ", "3">>,                           \* "1 x 3"
      <<"0", ".", "5", " ", "0", " ", "1">>,                 \* "0.5 0 1"
      <<"3", "0", "0", " ", "0", " ", "0">>,                 \* "300 0 0"
      <<"-", "1", " ", "0", " ", "0">>,                      \* "-1 0 0"
      <<"+", "1", " ", "1", "_", "0", " ", "0", "1">> }      \* "+1 1_0 01"

SeqsUpTo(S, n) == UNION { [1..k -> S] : k \in 0..n }

Contents == SeqsUpTo(LinePool, MaxLines)

\* the one colormap file on disk
StoredPath == <<DefaultBasePath, <<"a", ".rgb">>>>

NoArray == [values |-> <<>>, lat |-> <<>>, lon |-> <<>>]

Pending == Geometry("pending", {})

HullIdle ==
    /\ data_array = NoArray
    /\ level_idx = <<0, 0>>
    /\ valid_lat = <<>>
    /\ valid_lon = <<>>
    /\ points = <<>>
    /\ frame_polygon = Pending

InitLoad ==
    /\ pc = "load_call"
    /\ HullIdle
    /\ \E c \in Contents : fs = [p \in {StoredPath} |-> c]
    /\ name \in Names
    /\ base_path = DefaultBasePath
    /\ path = <<>>
    /\ f = NoFile
    /\ colors = <<>>
    /\ result = <<>>
    /\ exc = "none"
    /\ opens = <<>>

\* lines 5-7, the path does not exist: raise FileNotFoundError
RaiseNotFound ==
    /\ pc = "load_call"
    /\ ~Exists(fs, PathJoin(base_path, name))
    /\ path' = PathJoin(base_path, name)
    /\ exc' = "FileNotFoundError"
    /\ pc' = "load_raised"
    /\ UNCHANGED <<fs, name, base_path, f, colors, result, opens, hullVars>>

\* lines 5-10, the path exists: colors = [] and open(path) enters the with
\* block (open() itself raises FileNotFoundError on a path that is not there)
OpenFile ==
    /\ pc = "load_call"
    /\ Exists(fs, PathJoin(base_path, name))
    /\ LET p == PathJoin(base_path, name) IN
       /\ path' = p
       /\ opens' = Append(opens, p)
       /\ colors' = <<>>
       /\ IF p \in DOMAIN fs
          THEN /\ f' = OpenedFile(fs[p])
               /\ pc' = "load_loop"
               /\ exc' = exc
          ELSE /\ f' = f
               /\ pc' = "load_raised"
               /\ exc' = "FileNotFoundError"
    /\ UNCHANGED <<fs, name, base_path, result, hullVars>>

\* lines 11-18: one iteration of `for line in f`; an exception of int()
\* leaves the with block, which closes the file, and ends the call
LoopBody ==
    /\ pc = "load_loop"
    /\ f.pos < Len(f.content)
    /\ LET o == ParseLine(ReadLine(f.content, f.pos + 1))
           g == [f EXCEPT !.pos = f.pos + 1]
       IN  CASE o.kind = "skip" ->
                  /\ f' = g
                  /\ UNCHANGED <<colors, exc, pc>>
             [] o.kind = "color" ->
                  /\ f' = g
                  /\ colors' = Append(colors, o.color)
                  /\ UNCHANGED <<exc, pc>>
             [] o.kind = "raise" ->
                  /\ f' = WithExit(g)
                  /\ exc' = "ValueError"
                  /\ pc' = "load_raised"
                  /\ UNCHANGED colors
    /\ UNCHANGED <<fs, name, base_path, path, result, opens, hullVars>>

\* line 11 at end of file: the loop ends and the with block closes the file
LoopEnd ==
    /\ pc = "load_loop"
    /\ f.pos = Len(f.content)
    /\ f' = WithExit(f)
    /\ pc' = "load_return"
    /\ UNCHANGED <<fs, name, base_path, path, colors, result, exc, opens,
                   hullVars>>

\* line 20: return colors
ReturnColors ==
    /\ pc = "load_return"
    /\ result' = colors
    /\ pc' = "load_returned"
    /\ UNCHANGED <<fs, name, base_path, path, f, colors, exc, opens,
                   hullVars>>

----------------------------------------------------------------------------
(* Inputs of get_valid_data_frame: an array [eps, ref_time, y, x] whose    *)
(* selected slice has any pattern of missing values and whose other slices *)
(* are all missing or all valid, with lat and lon arrays of the shape      *)
(* (y, x) that are affine in the grid indices.                             *)

Shapes ==
    { s \in (1..MaxCells) \X (1..MaxCells) : s[1] * s[2] <= MaxCells }

Steps == 0..MaxStep

\* coordinate array with value sx * x + sy * y at [y, x]
Affine(shape, sx, sy) ==
    [y \in 0..(shape[1] - 1) |-> [x \in 0..(shape[2] - 1) |-> sx * x + sy * y]]

Slices(shape) ==
    [0..(shape[1] - 1) -> [0..(shape[2] - 1) -> {NaN, Val}]]

Uniform(shape, v) ==
    [y \in 0..(shape[1] - 1) |-> [x \in 0..(shape[2] - 1) |-> v]]

LevelIdxs == (0..(NEps - 1)) \X (0..(NRef - 1))

LoadIdle ==
    /\ fs = <<>>
    /\ name = ""
    /\ base_path = DefaultBasePath
    /\ path = <<>>
    /\ f = NoFile
    /\ colors = <<>>
    /\ result = <<>>
    /\ exc = "none"
    /\ opens = <<>>

InitHull ==
    /\ pc = "hull_call"
    /\ LoadIdle
    /\ level_idx \in LevelIdxs
    /\ \E shape \in Shapes : \E sel \in Slices(shape), fill \in {NaN, Val},
                                 lonx, lony, latx, laty \in Steps :
          data_array =
              [values |-> [e \in 0..(NEps - 1) |-> [t \in 0..(NRef - 1) |->
                              IF <<e, t>> = level_idx THEN sel
                              ELSE Uniform(shape, fill)]],
               lat |-> Affine(shape, latx, laty),
               lon |-> Affine(shape, lonx, lony)]
    /\ valid_lat = <<>>
    /\ valid_lon = <<>>
    /\ points = <<>>
    /\ frame_polygon = Pending

\* lines 16-23: select the slice, mask it, index lat and lon by the mask
MaskSlice ==
    /\ pc = "hull_call"
    /\ LET data_2d == Slice2D(data_array.values, level_idx)
           valid_mask == ValidMask(data_2d)
       IN  /\ valid_lat' = BoolIndex(data_array.lat, valid_mask)
           /\ valid_lon' = BoolIndex(data_array.lon, valid_mask)
    /\ pc' = "hull_check"
    /\ UNCHANGED <<data_array, level_idx, points, frame_polygon, loadVars>>

\* lines 25-26: return None
ReturnNone ==
    /\ pc = "hull_check"
    /\ TooFew(valid_lat)
    /\ frame_polygon' = None
    /\ pc' = "hull_returned"
    /\ UNCHANGED <<data_array, level_idx, valid_lat, valid_lon, points,
                   loadVars>>

\* lines 27-28: return MultiPoint(list(zip(valid_lon, valid_lat))).convex_hull
ReturnHull ==
    /\ pc = "hull_check"
    /\ ~TooFew(valid_lat)
    /\ points' = Zip(valid_lon, valid_lat)
    /\ frame_polygon' = ConvexHull(points')
    /\ pc' = "hull_returned"
    /\ UNCHANGED <<data_array, level_idx, valid_lat, valid_lon, loadVars>>

vars == <<pc, loadVars, hullVars>>

Init == InitLoad \/ InitHull

Next ==
    \/ RaiseNotFound
    \/ OpenFile
    \/ LoopBody
    \/ LoopEnd
    \/ ReturnColors
    \/ MaskSlice
    \/ ReturnNone
    \/ ReturnHull

Spec == Init /\ [][Next]_vars

----------------------------------------------------------------------------
(* Properties of load_ncl_rgb_colors.  The classes of lines are stated     *)
(* here on the characters of the line, without strip() and split().        *)

LoadEnded == pc \in {"load_returned", "load_raised"}

InLoad ==
    pc \in {"load_call", "load_loop", "load_return", "load_returned",
            "load_raised"}

\* <base_path>/<name>.rgb
CalledPath == <<base_path, <<name, ".rgb">>>>

Found == CalledPath \in DOMAIN fs

Content == fs[CalledPath]

NonBlank(l) == \E i \in 1..Len(l) : l[i] \notin Whitespace

FirstChar(l) ==
    l[CHOOSE i \in 1..Len(l) :
         l[i] \notin Whitespace /\ \A j \in 1..(i - 1) : l[j] \in Whitespace]

IsBlankLine(l) == ~NonBlank(l)

IsCommentLine(l) == NonBlank(l) /\ FirstChar(l) = "#"

IsHeaderLine(l) ==
    \E i \in 0..(Len(l) - 7) : \A k \in 1..7 : l[i + k] = ncolors[k]

Skipped(l) == IsBlankLine(l) \/ IsCommentLine(l) \/ IsHeaderLine(l)

TokenStarts(l) ==
    { i \in 1..Len(l) :
        l[i] \notin Whitespace /\ (i = 1 \/ l[i - 1] \in Whitespace) }

TokenEnd(l, i) ==
    CHOOSE j \in i..Len(l) :
        /\ \A k \in i..j : l[k] \notin Whitespace
        /\ j = Len(l) \/ l[j + 1] \in Whitespace

\* the k-th smallest element of a set of numbers
Nth(S, k) == CHOOSE i \in S : Cardinality({j \in S : j < i}) = k - 1

NTokens(l) == Cardinality(TokenStarts(l))

Token(l, n) ==
    LET i == Nth(TokenStarts(l), n) IN SubSeq(l, i, TokenEnd(l, i))

\* a line of exactly three integer tokens
ValidLine(l) ==
    ~Skipped(l) /\ NTokens(l) = 3 /\ \A n \in 1..3 : IsInt(Token(l, n))

\* a line of exactly three tokens, not all of them integers
BadLine(l) ==
    ~Skipped(l) /\ NTokens(l) = 3 /\ \E n \in 1..3 : ~IsInt(Token(l, n))

\* a line of one, two, four or more tokens
Malformed(l) == ~Skipped(l) /\ NTokens(l) # 3

ValidIdx(c) == { i \in 1..Len(c) : ValidLine(c[i]) }

\* the fraction q = <<n, d>> is the number v / 255
IsOver255(q, v) == q[1] * 255 = v * q[2]

InUnit(q) == 0 <= q[1] /\ q[1] <= q[2]

\* result is the list of (r/255, g/255, b/255) of the valid lines, in order
TripletsOfValidLines(c) ==
    /\ Len(result) = Cardinality(ValidIdx(c))
    /\ \A k \in 1..Len(result) :
          LET l == c[Nth(ValidIdx(c), k)] IN
          /\ Len(result[k]) = 3
          /\ \A ch \in 1..3 : IsOver255(result[k][ch], IntOf(Token(l, ch)))

\* C1 as stated: for every file content the call returns the list of the
\* (r/255, g/255, b/255) of its lines of three integer tokens, in file order.
C1_Original ==
    (LoadEnded /\ Found) =>
        pc = "load_returned" /\ TripletsOfValidLines(Content)

\* C1 amended: for every file content in which no non-skipped line of three
\* tokens holds a non-integer token, the call returns the list of the
\* (r/255, g/255, b/255) of its lines of three integer tokens, in file order.
C1_ReturnsTripletsInOrder ==
    (LoadEnded /\ Found /\ \A i \in 1..Len(Content) : ~BadLine(Content[i])) =>
        pc = "load_returned" /\ TripletsOfValidLines(Content)

C1_Witness ==
    /\ pc = "load_returned"
    /\ Len(Content) = 3
    /\ Len(result) = 2
    /\ result[1] # result[2]
    /\ \E i \in 1..3 : Malformed(Content[i]) \/ Skipped(Content[i])

\* C2: when <base_path>/<name>.rgb does not exist the call ends with
\* FileNotFoundError, returns nothing and hands no path to open(); when it
\* exists FileNotFoundError is never raised.
C2_NotFound ==
    InLoad =>
        /\ ~Found =>
              /\ pc \in {"load_call", "load_raised"}
              /\ opens = <<>> /\ f = NoFile /\ result = <<>>
              /\ pc = "load_raised" => exc = "FileNotFoundError"
        /\ Found => exc # "FileNotFoundError"

C2_Witness ==
    pc = "load_raised" /\ ~Found /\ exc = "FileNotFoundError" /\ DOMAIN fs # {}

NotSkipped(l) == ~Skipped(l)

NotMalformed(l) == ~Malformed(l)

\* the call ended as the loop ends on content c
EndsAs(c) ==
    LET o == LoadColors(c, <<>>) IN
    /\ (pc = "load_returned") = (o.status = "returned")
    /\ pc = "load_returned" => result = o.colors

\* C3: blank lines, lines starting with '#' and lines containing 'ncolors'
\* contribute nothing: the call ends as on the file without them, and a
\* file of only such lines gives the empty list.
C3_SkippedLinesContributeNothing ==
    (LoadEnded /\ Found) =>
        /\ EndsAs(SelectSeq(Content, NotSkipped))
        /\ (\A i \in 1..Len(Content) : Skipped(Content[i])) =>
              pc = "load_returned" /\ result = <<>>

C3_Witness ==
    /\ pc = "load_returned" /\ result = <<>>
    /\ Len(Content) = 3
    /\ \E i, j, k \in 1..3 :
          /\ IsCommentLine(Content[i])
          /\ IsHeaderLine(Content[j]) /\ NTokens(Content[j]) = 3
          /\ IsBlankLine(Content[k])

\* C4: a non-skipped line of one, two, four or more tokens raises nothing
\* and changes nothing: the call ends as on the file without those lines.
C4_MalformedLinesSkipped ==
    (LoadEnded /\ Found) =>
        /\ EndsAs(SelectSeq(Content, NotMalformed))
        /\ (\A i \in 1..Len(Content) : Malformed(Content[i])) =>
              pc = "load_returned" /\ result = <<>>

C4_Witness ==
    /\ pc = "load_returned" /\ Len(result) = 1
    /\ \E i, j \in 1..Len(Content) :
          /\ Malformed(Content[i]) /\ NTokens(Content[i]) = 2
          /\ Malformed(Content[j]) /\ NTokens(Content[j]) = 4

\* C5 as stated: every component of every returned triplet is in [0, 1],
\* whatever the file content.
C5_Original ==
    pc = "load_returned" =>
        \A k \in 1..Len(result) : \A ch \in 1..3 : InUnit(result[k][ch])

\* C5 amended: a component of a returned triplet is in [0, 1] exactly when
\* the integer it comes from is in 0..255; so every component is in [0, 1]
\* for a file whose lines of three integers hold only values in 0..255.
C5_ComponentsInUnitRange ==
    (pc = "load_returned" /\ Found) =>
        \A k \in 1..Len(result) : \A ch \in 1..3 :
            LET v == IntOf(Token(Content[Nth(ValidIdx(Content), k)], ch)) IN
            InUnit(result[k][ch]) <=> (0 <= v /\ v <= 255)

C5_Witness ==
    /\ pc = "load_returned" /\ Len(result) = 3
    /\ \A k \in 1..3 : \A ch \in 1..3 : InUnit(result[k][ch])
    /\ \E k \in 1..3 : result[k][1] = <<1, 1>>

\* C8: the file is open only while the loop runs, and it is closed when the
\* call has ended, by a return or by an exception of the loop.
C8_FileClosedOnEveryExit ==
    /\ f.open => pc = "load_loop" /\ ~f.closed
    /\ pc = "load_loop" => f.open
    /\ (pc \in {"load_return", "load_returned", "load_raised"}
           /\ opens # <<>>) => f.closed
    /\ Len(opens) <= 1

C8_Witness ==
    /\ pc = "load_raised" /\ exc = "ValueError"
    /\ f.closed /\ f.pos = 2 /\ Len(colors) = 1

\* C9: a non-skipped line of three tokens, one of them not an integer, ends
\* the call with the ValueError of int(); nothing is returned.
C9_NonIntegerTokenRaises ==
    (LoadEnded /\ Found /\ \E i \in 1..Len(Content) : BadLine(Content[i])) =>
        pc = "load_raised" /\ exc = "ValueError" /\ result = <<>>

C9_Witness ==
    /\ pc = "load_raised" /\ exc = "ValueError"
    /\ Len(colors) = 2 /\ result = <<>>
    /\ BadLine(Content[3])

----------------------------------------------------------------------------
(* Properties of get_valid_data_frame, stated on the arguments.            *)

\* the slice level_idx selects, read off the argument
Selected == data_array.values[level_idx[1]][level_idx[2]]

GridRows == DOMAIN data_array.lat

GridCols == DOMAIN data_array.lat[0]

\* the grid positions of the selected slice that are not NaN
ValidPositions ==
    { pos \in GridRows \X GridCols : Selected[pos[1]][pos[2]] # NaN }

LonLat(pos) ==
    <<data_array.lon[pos[1]][pos[2]], data_array.lat[pos[1]][pos[2]]>>

ValidPoints == { LonLat(pos) : pos \in ValidPositions }

Rectangular ==
    LET lon == data_array.lon
        lat == data_array.lat
    IN  \/ /\ \A y \in GridRows : \A x \in GridCols :
                 lon[y][x] = lon[0][x] /\ lat[y][x] = lat[y][0]
           /\ \A x1, x2 \in GridCols : lon[0][x1] = lon[0][x2] => x1 = x2
           /\ \A y1, y2 \in GridRows : lat[y1][0] = lat[y2][0] => y1 = y2
        \/ /\ \A y \in GridRows : \A x \in GridCols :
                 lon[y][x] = lon[y][0] /\ lat[y][x] = lat[0][x]
           /\ \A y1, y2 \in GridRows : lon[y1][0] = lon[y2][0] => y1 = y2
           /\ \A x1, x2 \in GridCols : lat[0][x1] = lat[0][x2] => x1 = x2

AllValid == ValidPositions = GridRows \X GridCols

Least(S) == CHOOSE v \in S : \A w \in S : v <= w

Greatest(S) == CHOOSE v \in S : \A w \in S : v >= w

\* the corner points of the bounding extent of the grid
Corners ==
    LET lons == { data_array.lon[y][x] : y \in GridRows, x \in GridCols }
        lats == { data_array.lat[y][x] : y \in GridRows, x \in GridCols }
    IN  {Least(lons), Greatest(lons)} \X {Least(lats), Greatest(lats)}

FullRectangularGrid ==
    /\ pc = "hull_returned"
    /\ Rectangular
    /\ AllValid
    /\ Cardinality(GridRows) * Cardinality(GridCols) >= 3

C10_PointsAreValidLonLat ==
    (pc = "hull_returned" /\ frame_polygon # None) =>
        /\ Len(points) = Cardinality(ValidPositions)
        /\ \A q \in ValidPoints \cup { points[k] : k \in 1..Len(points) } :
              Cardinality({ k \in 1..Len(points) : points[k] = q })
                = Cardinality({ pos \in ValidPositions : LonLat(pos) = q })
        /\ frame_polygon.coords \subseteq ValidPoints

C10_Witness ==
    /\ pc = "hull_returned"
    /\ frame_polygon.type = "Polygon"
    /\ level_idx = <<1, 0>>
    /\ Cardinality(ValidPositions) = 4
    /\ Cardinality(GridRows \X GridCols) = 6
    /\ \A pos \in GridRows \X GridCols :
          data_array.values[0][0][pos[1]][pos[2]] = Val
    /\ \E pos \in ValidPositions : LonLat(pos)[1] # LonLat(pos)[2]

====
